---- MODULE Spec2Model ----
(***************************************************************************)
(* QuickFactChecker (src/app.py, src/utils/fetch_url.py): the lazy model   *)
(* loader, the multi-model inference aggregation and the /predict_all      *)
(* request handler.                                                        *)
(*                                                                         *)
(* Confidences are real numbers in the code; here they are integers in     *)
(* thousandths (0.5 is 500).  Strings are sequences of characters.         *)
(***************************************************************************)
EXTENDS Integers, Sequences, FiniteSets, TLC

VARIABLES
    joblib,         \* app.py:12-15  TRUE iff `import joblib` succeeded
    tfInstall,      \* outcome `import tensorflow` / pad_sequences import would have
    npInstall,      \* TRUE iff `import numpy` would succeed
    disk,           \* artifact file -> content (Absent, Corrupt or a model version)
    tf,             \* app.py:19   global tf is not None
    np,             \* app.py:18   global np is not None
    pad_sequences,  \* app.py:20   global pad_sequences is not None
    models_loaded,  \* app.py:169  _models_loaded
    models,         \* app.py:170  _models (a dict, in insertion order)
    pc,             \* per thread: the line it is about to execute
    lctx,           \* per thread: the caller of the running load_models_if_needed
    loaded,         \* per thread: load_models_if_needed's local `loaded`
    ret,            \* per thread: what its last direct load_models_if_needed call returned
    li,             \* per thread: index of the candidate its loading loop is at
    lmodel,         \* per thread: load_models_if_needed's local `model` (keras)
    loops,          \* per thread: how often it ran the loading loop to its end (history)
    nloads,         \* number of executions of the loading loop (history)
    ncalls,         \* per thread: calls started (history, bounded)
    nchanges,       \* number of changes made to the disk (history, bounded)
    firstRet,       \* what the first completed direct call returned (history)
    text,           \* per thread: predict_with_all_models' argument
    pctx,           \* per thread: the caller of the running predict_with_all_models
    pmodels,        \* per thread: predict_with_all_models' local `models`
    idx,            \* per thread: position of its loop over models.items()
    results,        \* per thread: predict_with_all_models' local `results`
    lastIn,         \* per thread: what the model of the last iteration did (history)
    done,           \* per thread: keys whose inference completed (history)
    best,           \* per thread: predict_with_all_models' local `best`
    response,       \* per thread: what predict_with_all_models returned
    req,            \* per thread: the request /predict_all is handling (history)
    fetched,        \* per thread: the call of get_text_from_url, if any (history)
    aggArg,         \* per thread: <<text>> once the handler called the aggregator
    reply           \* per thread: the HTTP response

envVars == <<joblib, tfInstall, npInstall>>
globalVars == <<tf, np, pad_sequences, models_loaded, models>>
loadVars == <<lctx, loaded, li, lmodel, loops, nloads>>
predictVars == <<text, pctx, pmodels, idx, results, lastIn, done, best, response>>
httpVars == <<req, fetched, aggArg, reply>>

vars == <<joblib, tfInstall, npInstall, disk, tf, np, pad_sequences,
          models_loaded, models, pc, lctx, loaded, li, lmodel, loops, ret,
          nloads,
          ncalls, nchanges, firstRet, text, pctx, pmodels, idx, results,
          lastIn, done, best, response, req, fetched, aggArg, reply>>

(***************************************************************************)
(* Bounds of the model.                                                    *)
(***************************************************************************)
NumThreads == 2
MaxCalls == 2
MaxDiskChanges == 1

Threads == 1..NumThreads

(***************************************************************************)
(* Artifact files and their contents.                                      *)
(***************************************************************************)
Absent == "absent"
Corrupt == "corrupt"
Versions == {"v1", "v2"}
Contents == {Absent, Corrupt} \cup Versions
NoFile == "-"

\* app.py:184-190  candidates
Registry ==
    << [key |-> "lr",   name |-> "Logistic Regression",    type |-> "sklearn",
        path |-> "model_pipeline_lr.pkl",  tokenizer |-> NoFile],
       [key |-> "svm",  name |-> "Support Vector Machine", type |-> "sklearn",
        path |-> "model_pipeline_svm.pkl", tokenizer |-> NoFile],
       [key |-> "xgb",  name |-> "XGBoost",                type |-> "sklearn",
        path |-> "model_pipeline_xgb.pkl", tokenizer |-> NoFile],
       [key |-> "base", name |-> "Baseline Pipeline",      type |-> "sklearn",
        path |-> "model_pipeline.pkl",     tokenizer |-> NoFile],
       [key |-> "lstm", name |-> "LSTM (Keras)",           type |-> "keras",
        path |-> "lstm_model.h5",          tokenizer |-> "tokenizer.pkl"] >>

Files == {Registry[i].path : i \in 1..Len(Registry)} \cup {"tokenizer.pkl"}

\* os.path.isfile
IsFile(d, f) == d[f] # Absent

(***************************************************************************)
(* A dict in insertion order: a sequence of entries with distinct keys.    *)
(***************************************************************************)
DictKeys(d) == [i \in 1..Len(d) |-> d[i].key]

HasKey(d, k) == \E i \in 1..Len(d) : d[i].key = k

\* d[k] = v : replaces the entry of an existing key in place, else appends
DictSet(d, e) ==
    IF HasKey(d, e.key)
    THEN [i \in 1..Len(d) |-> IF d[i].key = e.key THEN e ELSE d[i]]
    ELSE Append(d, e)

(***************************************************************************)
(* load_models_if_needed, app.py:178-225: what single statements of the    *)
(* loop do.                                                                *)
(***************************************************************************)
\* joblib.load(f) / tf.keras.models.load_model(f) on content x: the object,
\* or an exception for a file that is gone or does not deserialize
Deserialize(x) ==
    IF x \in Versions THEN [exc |-> "none", val |-> x]
    ELSE [exc |-> "deser", val |-> NoFile]

\* app.py:198  loaded[c['key']] = {**c, 'model': model}
SklearnEntry(c, model) ==
    [key |-> c.key, name |-> c.name, type |-> c.type,
     model |-> model, tokenizer |-> NoFile]

\* app.py:219  loaded[c['key']] = {**c, 'model': model, 'tokenizer': tokenizer}
KerasEntry(c, model, tokenizer) ==
    [key |-> c.key, name |-> c.name, type |-> c.type,
     model |-> model, tokenizer |-> tokenizer]

\* the first statement of iteration i of the loop, or line 223 after the
\* last candidate
FirstLine(i) ==
    IF i > Len(Registry) THEN "l223"
    ELSE IF Registry[i].type = "sklearn" THEN "l195"
    ELSE "l200"

\* a narrower handler: only the AttributeError of a missing joblib is caught
LoadCatchesAttrOnly(e) == e = "attr"

\* app.py:220-222  `except Exception` catches whatever the try block raised
LoadCatches(e) == e \in {"deser", "attr", "import"}

(***************************************************************************)
(* Strings and the inputs of the inference loop.                           *)
(***************************************************************************)
MaxStrLen == 2
MaxP == 3
MaxDev == 1
MaxArtifacts == 3

Chars == {" ", "a"}
Strings == UNION {[1..n -> Chars] : n \in 0..MaxStrLen}

\* values a probability output takes (thousandths)
Probs == {350, 500}
\* raw decision scores; math.exp(710) overflows a float
RawScores == {-710, -1, 0, 1}
\* labels a label-only model predicts
Labels == {0, 1, 2}
Vectors == UNION {[1..n -> Probs] : n \in 0..MaxP}

Raised == [kind |-> "raise", vec |-> <<>>, num |-> 0, indexable |-> FALSE]
VecOut(p) == [kind |-> "vec", vec |-> p, num |-> 0, indexable |-> TRUE]
NumOut(x, ix) == [kind |-> "num", vec |-> <<>>, num |-> x, indexable |-> ix]
NotCalled == [kind |-> "none", vec |-> <<>>, num |-> 0, indexable |-> FALSE]

\* what a call of the named method of a model object may do
Outputs(method) ==
    {Raised} \cup
    CASE method = "predict_proba" -> {VecOut(p) : p \in Vectors}
      [] method = "decision_function" ->
            {NumOut(x, ix) : x \in RawScores, ix \in BOOLEAN}
      [] method = "predict" -> {NumOut(x, TRUE) : x \in Labels}
      [] method = "keras_predict" -> {NumOut(x, TRUE) : x \in Probs}
      [] OTHER -> {}

\* the optional methods a deserialized sklearn object may have
CapSets == SUBSET {"predict_proba", "decision_function"}

(***************************************************************************)
(* The inference adapter, app.py:231-262.                                  *)
(***************************************************************************)
\* app.py:174  1.0 / (1.0 + math.exp(-x)), in thousandths
Logistic(x) ==
    CASE x = -1 -> 269
      [] x = 0 -> 500
      [] x = 1 -> 731
      [] x < -1 -> 0
      [] OTHER -> 1000

\* app.py:172-176  _sigmoid: math.exp(-x) raises OverflowError above 709
Sigmoid(x) == IF -x > 709 THEN 500 ELSE Logistic(x)

\* app.py:237-244  the method the code consults
Probe(caps) ==
    IF "predict_proba" \in caps THEN "predict_proba"
    ELSE IF "decision_function" \in caps THEN "decision_function"
    ELSE "predict"

\* index 1 only for a vector of exactly two entries
ProbaOfExactlyTwo(p) == IF Len(p) = 2 THEN p[2] ELSE p[1]

\* app.py:239  float(p[1]) if len(p) > 1 else float(p[0])
ProbaOf(p) == IF Len(p) > 1 THEN p[2] ELSE p[1]

Ok(v) == [exc |-> FALSE, val |-> v]
Exc == [exc |-> TRUE, val |-> 0]

\* app.py:236-246  the confidence of one sklearn model
SklearnProba(caps, out) ==
    IF out.kind = "raise" THEN Exc
    ELSE IF Probe(caps) = "predict_proba"
         THEN IF Len(out.vec) = 0 THEN Exc ELSE Ok(ProbaOf(out.vec))
    ELSE IF Probe(caps) = "decision_function"
         THEN Ok(Sigmoid(out.num))
    ELSE Ok(IF out.num = 1 THEN 650 ELSE 350)

\* a strict threshold
PredLabelStrict(proba) == IF proba > 500 THEN 1 ELSE 0

\* app.py:247, app.py:258  1 if proba >= 0.5 else 0
PredLabel(proba) == IF proba >= 500 THEN 1 ELSE 0

Entry(info, proba, src) ==
    [model |-> info.name, key |-> info.key, prediction |-> PredLabel(proba),
     confidence |-> proba, source |-> src]

Skip == [kind |-> "skip"]
Fail == [kind |-> "exc"]
Result(e) == [kind |-> "result", entry |-> e]

\* app.py:234-259  the try block of one iteration, for the model `info`
TryInfer(info, caps, out) ==
    IF info.type = "sklearn"
    THEN LET r == SklearnProba(caps, out) IN
         IF r.exc THEN Fail ELSE Result(Entry(info, r.val, "sklearn"))
    ELSE IF info.type = "keras"
    THEN IF ~np \/ ~pad_sequences THEN Skip
         ELSE IF out.kind = "raise" THEN Fail
         ELSE Result(Entry(info, out.num, "keras"))
    ELSE Skip

\* the method whose output an iteration reads, if any
Consulted(info, caps) ==
    IF info.type = "sklearn" THEN Probe(caps)
    ELSE IF info.type = "keras" /\ np /\ pad_sequences THEN "keras_predict"
    ELSE "none"

\* whether the model's own inference ran to its end on these inputs
Completes(info, caps, out) ==
    /\ out.kind \notin {"raise", "none"}
    /\ out.kind = "vec" => Len(out.vec) > 0

\* the handler lets the exception through
PredictCatchesNothing(r) == FALSE

\* app.py:260-262  `except Exception` catches whatever the try block raised
PredictCatches(r) == r.kind = "exc"

(***************************************************************************)
(* The mock fallback and the best pick, app.py:263-271.                    *)
(***************************************************************************)
\* app.py:265
mock_names == <<"Logistic Regression", "Support Vector Machine", "XGBoost",
                "Naive Bayes", "LSTM (Keras)">>
\* app.py:269  f'mock_{i}'
MockKey(i) == <<"mock_0", "mock_1", "mock_2", "mock_3", "mock_4">>[i + 1]

\* values of random.random(), in thousandths
RandVals == {0, 990}
\* the ten draws of one fallback: at most MaxDev of them are not 0
RandStreams ==
    UNION {{[i \in 1..10 |-> IF i \in S THEN g[i] ELSE 0] : g \in [S -> RandVals \ {0}]} :
              S \in {T \in SUBSET (1..10) : Cardinality(T) <= MaxDev}}

\* app.py:266-269
MockResults(s) ==
    [n \in 1..Len(mock_names) |->
        [model |-> mock_names[n], key |-> MockKey(n - 1),
         prediction |-> IF s[2 * n] > 500 THEN 1 ELSE 0,
         confidence |-> 550 + (s[2 * n - 1] * 400) \div 1000,
         source |-> "mock"]]

\* the fallback replaces whatever the loop produced
UseFallbackAlways(res) == TRUE

\* app.py:263  `if not results`
UseFallback(res) == Len(res) = 0

\* a later item with an equal key replaces the current one
BetterOrEqual(a, b) == a >= b

\* max(): a later item replaces the current one only if its key is greater
Better(a, b) == a > b

RECURSIVE MaxIndex(_, _, _)
\* app.py:270  max(range(len(results)), key=...), indices from 0
MaxIndex(res, i, cur) ==
    IF i >= Len(res) THEN cur
    ELSE MaxIndex(res, i + 1,
            IF Better(res[i + 1].confidence, res[cur + 1].confidence)
            THEN i ELSE cur)

\* app.py:271  {**results[best_idx], 'index': best_idx}
BestOf(res) ==
    LET best_idx == MaxIndex(res, 1, 0) IN
    [model |-> res[best_idx + 1].model, key |-> res[best_idx + 1].key,
     prediction |-> res[best_idx + 1].prediction,
     confidence |-> res[best_idx + 1].confidence,
     source |-> res[best_idx + 1].source, index |-> best_idx]

\* app.py:272  {k: v['name'] for k, v in load_models_if_needed().items()}
NamesOf(m) == [i \in 1..Len(m) |-> [key |-> m[i].key, name |-> m[i].name]]

NoIn == [key |-> "-", caps |-> {}, method |-> "none", out |-> NotCalled]
NoBest == [model |-> "-", key |-> "-", prediction |-> 0, confidence |-> 0,
           source |-> "-", index |-> -1]
NoResponse == [input_text |-> <<>>, results |-> <<>>, best |-> NoBest,
               models_loaded |-> <<>>]

(***************************************************************************)
(* POST /predict_all, app.py:322-341, and get_text_from_url,               *)
(* utils/fetch_url.py:4-16.                                                *)
(***************************************************************************)
IsSpace(c) == c = " "

RECURSIVE LStrip(_)
LStrip(s) == IF Len(s) > 0 /\ IsSpace(Head(s)) THEN LStrip(Tail(s)) ELSE s

RECURSIVE RStrip(_)
RStrip(s) ==
    IF Len(s) > 0 /\ IsSpace(s[Len(s)]) THEN RStrip(SubSeq(s, 1, Len(s) - 1)) ELSE s

\* str.strip()
Strip(s) == RStrip(LStrip(s))

\* a member of the JSON object: missing, a string, or any other JSON value
Missing == [kind |-> "missing", s |-> <<>>]
Other == [kind |-> "other", s |-> <<>>]
Str(s) == [kind |-> "str", s |-> s]
Fields == {Missing, Other} \cup {Str(s) : s \in Strings}

\* request bodies: not JSON at all, JSON that is no object, or an object
Bodies ==
    {[json |-> "invalid", text |-> Missing, url |-> Missing],
     [json |-> "value", text |-> Missing, url |-> Missing]} \cup
    {[json |-> "object", text |-> x, url |-> u] : x \in Fields, u \in Fields}

\* data.get(k, '').strip() : AttributeError unless the value is a string
GetStripped(field) ==
    IF field.kind = "missing" THEN [exc |-> FALSE, val |-> Strip(<<>>)]
    ELSE IF field.kind = "str" THEN [exc |-> FALSE, val |-> Strip(field.s)]
    ELSE [exc |-> TRUE, val |-> <<>>]

\* app.py:331-336  if url: ... elif text: ... else: 400
TextSource(txt, url) ==
    IF url # <<>> THEN "url" ELSE IF txt # <<>> THEN "text" ELSE "none"

\* app.py:328-336  up to the choice of text_to_check; an exception raised here
\* is caught at app.py:339 and answered with 500
Handle(body) ==
    IF body.json = "invalid" THEN [act |-> "500", arg |-> <<>>]
    ELSE IF body.json # "object" THEN [act |-> "500", arg |-> <<>>]
    ELSE LET x == GetStripped(body.text) IN
         IF x.exc THEN [act |-> "500", arg |-> <<>>]
         ELSE LET u == GetStripped(body.url) IN
              IF u.exc THEN [act |-> "500", arg |-> <<>>]
              ELSE IF TextSource(x.val, u.val) = "url"
                   THEN [act |-> "fetch", arg |-> u.val]
              ELSE IF TextSource(x.val, u.val) = "text"
                   THEN [act |-> "text", arg |-> x.val]
              ELSE [act |-> "400", arg |-> <<>>]

MaxParas == 2
\* the text of a <p> element
ParaTexts == {<<>>, <<"a">>}
\* what requests.get does: it fails, or returns a page with these paragraphs
Pages ==
    {[ok |-> FALSE, paras |-> <<>>]} \cup
    {[ok |-> TRUE, paras |-> ps] : ps \in UNION {[1..n -> ParaTexts] : n \in 0..MaxParas}}

RECURSIVE Join(_)
\* " ".join(...)
Join(ps) ==
    IF Len(ps) = 0 THEN <<>>
    ELSE IF Len(ps) = 1 THEN ps[1]
    ELSE ps[1] \o <<" ">> \o Join(Tail(ps))

\* utils/fetch_url.py:16  f"Error fetching URL: {e}"
ErrorText == <<"Error fetching URL: ", "e">>

\* utils/fetch_url.py:4-16
get_text_from_url(page) == IF page.ok THEN Join(page.paras) ELSE ErrorText

NoRequest == [json |-> "none", text |-> Missing, url |-> Missing]
NotFetched == [called |-> FALSE, arg |-> <<>>, ret |-> <<>>]
NoReply == [status |-> 0, kind |-> "none"]

(***************************************************************************)
(* The steps of a thread.                                                  *)
(***************************************************************************)
\* where a finished load_models_if_needed call hands its value
ReturnLoad(t, v) ==
    IF lctx[t] = "p228"
    THEN \* app.py:228-229
         /\ pmodels' = [pmodels EXCEPT ![t] = v]
         /\ idx' = [idx EXCEPT ![t] = 1]
         /\ results' = [results EXCEPT ![t] = <<>>]
         /\ done' = [done EXCEPT ![t] = <<>>]
         /\ lastIn' = [lastIn EXCEPT ![t] = NoIn]
         /\ pc' = [pc EXCEPT ![t] = "p230"]
         /\ UNCHANGED <<ret, firstRet, response>>
    ELSE IF lctx[t] = "p272"
    THEN \* app.py:272
         /\ response' = [response EXCEPT ![t] =
                [input_text |-> text[t], results |-> results[t],
                 best |-> best[t], models_loaded |-> NamesOf(v)]]
         /\ pc' = [pc EXCEPT ![t] = IF pctx[t] = "http" THEN "h338" ELSE "idle"]
         /\ UNCHANGED <<ret, firstRet, pmodels, idx, results, done, lastIn>>
    ELSE /\ pc' = [pc EXCEPT ![t] = "idle"]
         /\ ret' = [ret EXCEPT ![t] = v]
         /\ firstRet' = IF firstRet = <<>> THEN <<v>> ELSE firstRet
         /\ UNCHANGED <<pmodels, idx, results, done, lastIn, response>>

\* a direct call of load_models_if_needed by thread t
CallLoad(t) ==
    /\ UNCHANGED httpVars
    /\ pc[t] = "idle"
    /\ ncalls[t] < MaxCalls
    /\ ncalls' = [ncalls EXCEPT ![t] = @ + 1]
    /\ pc' = [pc EXCEPT ![t] = "l180"]
    /\ lctx' = [lctx EXCEPT ![t] = "direct"]
    /\ UNCHANGED <<envVars, disk, globalVars, loaded, li, lmodel, loops, ret, nloads,
                   nchanges, firstRet, predictVars>>

\* a one-time guard: the call that finds the flag unset sets it at once
LoadCheckTestAndSet(t) ==
    /\ UNCHANGED httpVars
    /\ pc[t] = "l180"
    /\ IF models_loaded
       THEN ReturnLoad(t, models) /\ UNCHANGED models_loaded
       ELSE /\ pc' = [pc EXCEPT ![t] = "l182"]
            /\ models_loaded' = TRUE
            /\ UNCHANGED <<ret, firstRet, pmodels, idx, results, done, lastIn,
                           response>>
    /\ UNCHANGED <<envVars, disk, tf, np, pad_sequences, models, loadVars,
                   ncalls, nchanges, text, pctx, best>>

\* app.py:180-181
LoadCheck(t) ==
    /\ UNCHANGED httpVars
    /\ pc[t] = "l180"
    /\ IF models_loaded
       THEN ReturnLoad(t, models)
       ELSE /\ pc' = [pc EXCEPT ![t] = "l182"]
            /\ UNCHANGED <<ret, firstRet, pmodels, idx, results, done, lastIn,
                           response>>
    /\ UNCHANGED <<envVars, disk, globalVars, loadVars, ncalls, nchanges,
                   text, pctx, best>>

\* what every statement of the loop leaves alone
LoopFrame ==
    UNCHANGED <<envVars, disk, models_loaded, models, lctx, ret, ncalls,
                nchanges, firstRet, loops, nloads, predictVars, httpVars>>

Goto(t, label) ==
    /\ pc' = [pc EXCEPT ![t] = label]
    /\ UNCHANGED li

\* `continue`, or the end of an iteration: on to the next candidate
ContinueLoop(t) ==
    /\ li' = [li EXCEPT ![t] = @ + 1]
    /\ pc' = [pc EXCEPT ![t] = FirstLine(li[t] + 1)]

\* app.py:220-222  an exception raised inside the try block
Except(t, e) ==
    IF LoadCatches(e) THEN ContinueLoop(t)
    ELSE /\ pc' = [pc EXCEPT ![t] = "raised"]
         /\ UNCHANGED li

\* app.py:182-192  the candidates, loaded = {}, the loop is entered
LoadEnter(t) ==
    /\ pc[t] = "l182"
    /\ loaded' = [loaded EXCEPT ![t] = <<>>]
    /\ li' = [li EXCEPT ![t] = 1]
    /\ pc' = [pc EXCEPT ![t] = FirstLine(1)]
    /\ nloads' = nloads + 1
    /\ UNCHANGED <<envVars, disk, globalVars, lctx, lmodel, loops, ret, ncalls,
                   nchanges, firstRet, predictVars, httpVars>>

\* app.py:195-196  if joblib is None or not os.path.isfile(c['path']): continue
LoadSkCheck(t) ==
    /\ pc[t] = "l195"
    /\ IF ~joblib \/ ~IsFile(disk, Registry[li[t]].path)
       THEN ContinueLoop(t)
       ELSE Goto(t, "l197")
    /\ UNCHANGED <<tf, np, pad_sequences, loaded, lmodel>>
    /\ LoopFrame

\* app.py:197-198  model = joblib.load(c['path']); loaded[c['key']] = ...
LoadSkLoad(t) ==
    /\ pc[t] = "l197"
    /\ LET c == Registry[li[t]]
           r == Deserialize(disk[c.path])
       IN IF r.exc # "none"
          THEN Except(t, r.exc) /\ UNCHANGED loaded
          ELSE /\ loaded' = [loaded EXCEPT ![t] = DictSet(@, SklearnEntry(c, r.val))]
               /\ ContinueLoop(t)
    /\ UNCHANGED <<tf, np, pad_sequences, lmodel>>
    /\ LoopFrame

\* app.py:200  not os.path.isfile(c['path']) : continue
LoadKCheckModel(t) ==
    /\ pc[t] = "l200"
    /\ IF ~IsFile(disk, Registry[li[t]].path)
       THEN ContinueLoop(t)
       ELSE Goto(t, "l200t")
    /\ UNCHANGED <<tf, np, pad_sequences, loaded, lmodel>>
    /\ LoopFrame

\* app.py:200-201  or not os.path.isfile(c['tokenizer']) : continue
LoadKCheckTokenizer(t) ==
    /\ pc[t] = "l200t"
    /\ IF ~IsFile(disk, Registry[li[t]].tokenizer)
       THEN ContinueLoop(t)
       ELSE Goto(t, "l203")
    /\ UNCHANGED <<tf, np, pad_sequences, loaded, lmodel>>
    /\ LoopFrame

\* app.py:203  if tf is None
LoadTfTest(t) ==
    /\ pc[t] = "l203"
    /\ Goto(t, IF tf THEN "l211" ELSE "l205")
    /\ UNCHANGED <<tf, np, pad_sequences, loaded, lmodel>>
    /\ LoopFrame

\* app.py:205  import tensorflow as tf  (208-210 when it fails)
LoadImportTf(t) ==
    /\ pc[t] = "l205"
    /\ IF tfInstall = "no_tf"
       THEN ContinueLoop(t) /\ UNCHANGED tf
       ELSE tf' = TRUE /\ Goto(t, "l206")
    /\ UNCHANGED <<np, pad_sequences, loaded, lmodel>>
    /\ LoopFrame

\* app.py:206-207  from ... import pad_sequences as _pad_sequences;
\* pad_sequences = _pad_sequences  (208-210 when the import fails)
LoadImportPad(t) ==
    /\ pc[t] = "l206"
    /\ IF tfInstall = "ok"
       THEN pad_sequences' = TRUE /\ Goto(t, "l211")
       ELSE ContinueLoop(t) /\ UNCHANGED pad_sequences
    /\ UNCHANGED <<tf, np, loaded, lmodel>>
    /\ LoopFrame

\* app.py:211  if np is None
LoadNpTest(t) ==
    /\ pc[t] = "l211"
    /\ Goto(t, IF np THEN "l217" ELSE "l213")
    /\ UNCHANGED <<tf, np, pad_sequences, loaded, lmodel>>
    /\ LoopFrame

\* app.py:213  import numpy as np  (214-216 when it fails)
LoadImportNp(t) ==
    /\ pc[t] = "l213"
    /\ IF npInstall
       THEN np' = TRUE /\ Goto(t, "l217")
       ELSE ContinueLoop(t) /\ UNCHANGED np
    /\ UNCHANGED <<tf, pad_sequences, loaded, lmodel>>
    /\ LoopFrame

\* app.py:217  model = tf.keras.models.load_model(c['path'])
LoadKModel(t) ==
    /\ pc[t] = "l217"
    /\ LET r == Deserialize(disk[Registry[li[t]].path])
       IN IF r.exc # "none"
          THEN Except(t, r.exc) /\ UNCHANGED lmodel
          ELSE lmodel' = [lmodel EXCEPT ![t] = r.val] /\ Goto(t, "l218")
    /\ UNCHANGED <<tf, np, pad_sequences, loaded>>
    /\ LoopFrame

\* app.py:218-219  tokenizer = joblib.load(c['tokenizer']); loaded[...] = ...
LoadKTokenizer(t) ==
    /\ pc[t] = "l218"
    /\ LET c == Registry[li[t]]
           r == IF ~joblib THEN [exc |-> "attr", val |-> NoFile]
                ELSE Deserialize(disk[c.tokenizer])
       IN IF r.exc # "none"
          THEN Except(t, r.exc) /\ UNCHANGED loaded
          ELSE /\ loaded' = [loaded EXCEPT ![t] =
                      DictSet(@, KerasEntry(c, lmodel[t], r.val))]
               /\ ContinueLoop(t)
    /\ UNCHANGED <<tf, np, pad_sequences, lmodel>>
    /\ LoopFrame

\* app.py:223
LoadAssign(t) ==
    /\ UNCHANGED httpVars
    /\ pc[t] = "l223"
    /\ models' = loaded[t]
    /\ loops' = [loops EXCEPT ![t] = @ + 1]
    /\ pc' = [pc EXCEPT ![t] = "l224"]
    /\ UNCHANGED <<envVars, disk, tf, np, pad_sequences, models_loaded,
                   lctx, loaded, li, lmodel, nloads, ret, ncalls, nchanges,
                   firstRet, predictVars>>

\* line 224 left out: the flag is never set
LoadFlagForgotten(t) ==
    /\ pc[t] = "l224"
    /\ pc' = [pc EXCEPT ![t] = "l225"]
    /\ UNCHANGED <<envVars, disk, globalVars, loadVars, ret, ncalls, nchanges,
                   firstRet, predictVars, httpVars>>

\* app.py:224
LoadFlag(t) ==
    /\ UNCHANGED httpVars
    /\ pc[t] = "l224"
    /\ models_loaded' = TRUE
    /\ pc' = [pc EXCEPT ![t] = "l225"]
    /\ UNCHANGED <<envVars, disk, tf, np, pad_sequences, models, loadVars,
                   ret, ncalls, nchanges, firstRet, predictVars>>

\* app.py:225
LoadReturn(t) ==
    /\ UNCHANGED httpVars
    /\ pc[t] = "l225"
    /\ ReturnLoad(t, models)
    /\ UNCHANGED <<envVars, disk, globalVars, loadVars, ncalls, nchanges,
                   text, pctx, best>>

\* the environment adds, removes or replaces an artifact file
DiskChange(f, c) ==
    /\ UNCHANGED httpVars
    /\ nchanges < MaxDiskChanges
    /\ disk[f] # c
    /\ disk' = [disk EXCEPT ![f] = c]
    /\ nchanges' = nchanges + 1
    /\ UNCHANGED <<envVars, globalVars, pc, loadVars, ret, ncalls, firstRet,
                   predictVars>>

\* a direct call of predict_with_all_models(txt); app.py:227-228
CallPredict(t, txt) ==
    /\ UNCHANGED httpVars
    /\ pc[t] = "idle"
    /\ ncalls[t] = 0
    /\ ncalls' = [ncalls EXCEPT ![t] = @ + 1]
    /\ text' = [text EXCEPT ![t] = txt]
    /\ pctx' = [pctx EXCEPT ![t] = "direct"]
    /\ lctx' = [lctx EXCEPT ![t] = "p228"]
    /\ pc' = [pc EXCEPT ![t] = "l180"]
    /\ UNCHANGED <<envVars, disk, globalVars, loaded, li, lmodel, loops, ret, nloads,
                   nchanges, firstRet, pmodels, idx, results, lastIn, done,
                   best, response>>

\* app.py:230-262  one iteration of the loop over models.items()
InferOne(t) ==
    /\ UNCHANGED httpVars
    /\ pc[t] = "p230"
    /\ idx[t] <= Len(pmodels[t])
    /\ LET info == pmodels[t][idx[t]] IN
       \E caps \in IF info.type = "sklearn" THEN CapSets ELSE {{}} :
       \E out \in IF Consulted(info, caps) = "none" THEN {NotCalled}
                  ELSE Outputs(Consulted(info, caps)) :
          LET r == TryInfer(info, caps, out) IN
          /\ lastIn' = [lastIn EXCEPT ![t] =
                 [key |-> info.key, caps |-> caps,
                  method |-> Consulted(info, caps), out |-> out]]
          /\ IF r.kind = "exc" /\ ~PredictCatches(r)
             THEN /\ pc' = [pc EXCEPT ![t] = "raised"]
                  /\ UNCHANGED <<results, idx>>
                  /\ done' = done
             ELSE /\ results' = [results EXCEPT ![t] =
                         IF r.kind = "result" THEN Append(@, r.entry) ELSE @]
                  /\ done' = [done EXCEPT ![t] =
                         IF Completes(info, caps, out)
                         THEN Append(@, info.key) ELSE @]
                  /\ idx' = [idx EXCEPT ![t] = @ + 1]
                  /\ UNCHANGED pc
    /\ UNCHANGED <<envVars, disk, globalVars, loadVars, ret, ncalls, nchanges,
                   firstRet, text, pctx, pmodels, best, response>>

\* app.py:263-272  after the loop: the fallback, the best pick, and the call
\* of load_models_if_needed inside the returned dict
FinishLoop(t) ==
    /\ UNCHANGED httpVars
    /\ pc[t] = "p230"
    /\ idx[t] > Len(pmodels[t])
    /\ \E s \in IF UseFallback(results[t]) THEN RandStreams ELSE {<<>>} :
          LET res == IF UseFallback(results[t])
                     THEN results[t] \o MockResults(s) ELSE results[t]
          IN /\ results' = [results EXCEPT ![t] = res]
             /\ best' = [best EXCEPT ![t] = BestOf(res)]
    /\ lctx' = [lctx EXCEPT ![t] = "p272"]
    /\ pc' = [pc EXCEPT ![t] = "l180"]
    /\ UNCHANGED <<envVars, disk, globalVars, loaded, li, lmodel, loops, nloads, ret,
                   ncalls, nchanges, firstRet, text, pctx, pmodels, idx,
                   lastIn, done, response>>

\* GET /predict_all; app.py:326-327
HttpGet(t) ==
    /\ pc[t] = "idle"
    /\ ncalls[t] = 0
    /\ ncalls' = [ncalls EXCEPT ![t] = 1]
    /\ reply' = [reply EXCEPT ![t] = [status |-> 200, kind |-> "usage"]]
    /\ UNCHANGED <<envVars, disk, globalVars, pc, loadVars, ret, nchanges,
                   firstRet, predictVars, req, fetched, aggArg>>

\* app.py:337  result = predict_with_all_models(text_to_check)
CallAggregator(t, text_to_check) ==
    /\ aggArg' = [aggArg EXCEPT ![t] = <<text_to_check>>]
    /\ text' = [text EXCEPT ![t] = text_to_check]
    /\ pctx' = [pctx EXCEPT ![t] = "http"]
    /\ lctx' = [lctx EXCEPT ![t] = "p228"]
    /\ pc' = [pc EXCEPT ![t] = "l180"]

\* POST /predict_all with this body; app.py:328-336 (and 339-341 when an
\* exception is raised): up to the call of predict_with_all_models, or to
\* the request get_text_from_url sends (fetch_url.py:9)
HttpPost(t, body) ==
    /\ pc[t] = "idle"
    /\ ncalls[t] = 0
    /\ ncalls' = [ncalls EXCEPT ![t] = 1]
    /\ req' = [req EXCEPT ![t] = body]
    /\ LET h == Handle(body) IN
       IF h.act = "fetch"
       THEN /\ fetched' = [fetched EXCEPT ![t] =
                   [called |-> TRUE, arg |-> h.arg, ret |-> <<>>]]
            /\ pc' = [pc EXCEPT ![t] = "f9"]
            /\ UNCHANGED <<aggArg, text, pctx, lctx, reply>>
       ELSE IF h.act = "text"
       THEN /\ CallAggregator(t, h.arg)
            /\ UNCHANGED <<fetched, reply>>
       ELSE /\ reply' = [reply EXCEPT ![t] =
                   [status |-> IF h.act = "400" THEN 400 ELSE 500,
                    kind |-> "error"]]
            /\ UNCHANGED <<fetched, aggArg, text, pctx, lctx, pc>>
    /\ UNCHANGED <<envVars, disk, globalVars, loaded, li, lmodel, loops, nloads, ret,
                   nchanges, firstRet, pmodels, idx, results, lastIn, done,
                   best, response>>

\* fetch_url.py:9-16 and app.py:332, 337: the request ends, get_text_from_url
\* returns and its value goes to predict_with_all_models
HttpFetched(t) ==
    /\ pc[t] = "f9"
    /\ \E page \in Pages :
          LET text_to_check == get_text_from_url(page)
          IN /\ fetched' = [fetched EXCEPT ![t].ret = text_to_check]
             /\ CallAggregator(t, text_to_check)
    /\ UNCHANGED <<envVars, disk, globalVars, loaded, li, lmodel, loops, nloads, ret,
                   ncalls, nchanges, firstRet, pmodels, idx, results, lastIn,
                   done, best, response, req, reply>>

\* app.py:338  return jsonify(result)
HttpReturn(t) ==
    /\ pc[t] = "h338"
    /\ reply' = [reply EXCEPT ![t] = [status |-> 200, kind |-> "result"]]
    /\ pc' = [pc EXCEPT ![t] = "idle"]
    /\ UNCHANGED <<envVars, disk, globalVars, loadVars, ret, ncalls, nchanges,
                   firstRet, predictVars, req, fetched, aggArg>>

LoadSteps(t) ==
    \/ LoadCheck(t)
    \/ LoadEnter(t)
    \/ LoadSkCheck(t)
    \/ LoadSkLoad(t)
    \/ LoadKCheckModel(t)
    \/ LoadKCheckTokenizer(t)
    \/ LoadTfTest(t)
    \/ LoadImportTf(t)
    \/ LoadImportPad(t)
    \/ LoadNpTest(t)
    \/ LoadImportNp(t)
    \/ LoadKModel(t)
    \/ LoadKTokenizer(t)
    \/ LoadAssign(t)
    \/ LoadFlag(t)
    \/ LoadReturn(t)

(***************************************************************************)
(* Specifications.                                                         *)
(***************************************************************************)
\* the environment the process runs in
InitEnv ==
    /\ joblib \in BOOLEAN
    /\ tfInstall \in {"ok", "no_pad", "no_tf"}
    /\ npInstall \in BOOLEAN

\* a thread that has called nothing yet
InitThreads ==
    /\ lctx = [t \in Threads |-> "direct"]
    /\ ret = [t \in Threads |-> <<>>]
    /\ nchanges = 0
    /\ firstRet = <<>>
    /\ text = [t \in Threads |-> <<>>]
    /\ pctx = [t \in Threads |-> "direct"]
    /\ pmodels = [t \in Threads |-> <<>>]
    /\ idx = [t \in Threads |-> 0]
    /\ results = [t \in Threads |-> <<>>]
    /\ lastIn = [t \in Threads |-> NoIn]
    /\ done = [t \in Threads |-> <<>>]
    /\ best = [t \in Threads |-> NoBest]
    /\ response = [t \in Threads |-> NoResponse]
    /\ req = [t \in Threads |-> NoRequest]
    /\ fetched = [t \in Threads |-> NotFetched]
    /\ aggArg = [t \in Threads |-> <<>>]
    /\ reply = [t \in Threads |-> NoReply]

\* app.py:18-20, app.py:169-170  the globals right after import of app.py
InitGlobals ==
    /\ tf = FALSE
    /\ np = FALSE
    /\ pad_sequences = FALSE
    /\ models_loaded = FALSE
    /\ models = <<>>

\* the process right after import of app.py, in any environment
InitProcess ==
    /\ InitEnv
    /\ InitGlobals
    /\ InitThreads
    /\ pc = [t \in Threads |-> "idle"]
    /\ loaded = [t \in Threads |-> <<>>]
    /\ li = [t \in Threads |-> 0]
    /\ lmodel = [t \in Threads |-> NoFile]
    /\ loops = [t \in Threads |-> 0]
    /\ nloads = 0
    /\ ncalls = [t \in Threads |-> 0]

\* disks holding at most MaxArtifacts files, all of them loadable
ArtifactDisks ==
    {d \in [Files -> {Absent, "v1"}] :
        Cardinality({f \in Files : d[f] # Absent}) <= MaxArtifacts}

\* disks whose files are all sklearn artifacts of the first three
\* candidates, or all among the first candidate's and the keras candidate's
SmallDisks ==
    {d \in ArtifactDisks :
        \/ \A f \in Files : d[f] # Absent =>
               f \in {Registry[1].path, Registry[2].path, Registry[3].path}
        \/ \A f \in Files : d[f] # Absent =>
               f \in {Registry[1].path, Registry[5].path, Registry[5].tokenizer}}

\* one thread calls load_models_if_needed, on any disk
InitLoad ==
    /\ InitProcess
    /\ disk \in [Files -> {Absent, Corrupt, "v1"}]

NextLoad ==
    \/ CallLoad(1)
    \/ LoadSteps(1)

SpecLoad == InitLoad /\ [][NextLoad]_vars

\* one thread calls load_models_if_needed repeatedly while files change
InitSeq ==
    /\ InitProcess
    /\ disk \in ArtifactDisks

NextSeq ==
    \/ CallLoad(1)
    \/ LoadSteps(1)
    \/ \E f \in Files, c \in Contents : DiskChange(f, c)

SpecSeq == InitSeq /\ [][NextSeq]_vars

\* several threads call load_models_if_needed
InitRace ==
    /\ InitProcess
    /\ disk \in SmallDisks

NextRace ==
    \E t \in Threads : CallLoad(t) \/ LoadSteps(t)

Spec == InitRace /\ [][NextRace]_vars

\* several threads call load_models_if_needed while artifact files change
NextRaceDisk ==
    \/ \E t \in Threads : CallLoad(t) \/ LoadSteps(t)
    \/ \E f \in Files, c \in Contents : DiskChange(f, c)

SpecRaceDisk == InitRace /\ [][NextRaceDisk]_vars

\* thread 1 calls predict_with_all_models once while thread 2 calls
\* load_models_if_needed once
PredictTexts == {<<"a">>}

InitPredict ==
    /\ InitProcess
    /\ disk \in SmallDisks

NextPredict ==
    \/ \E txt \in PredictTexts : CallPredict(1, txt)
    \/ InferOne(1)
    \/ FinishLoop(1)
    \/ (ncalls[2] = 0 /\ CallLoad(2))
    \/ \E t \in Threads : LoadSteps(t)

SpecPredict == InitPredict /\ [][NextPredict]_vars

\* thread 1 receives one request on /predict_all
HttpDisks ==
    {d \in ArtifactDisks :
        \A f \in Files : d[f] # Absent =>
            f \in {Registry[1].path, Registry[5].path, Registry[5].tokenizer}}

InitHttp ==
    /\ InitProcess
    /\ disk \in HttpDisks

NextHttp ==
    \/ HttpGet(1)
    \/ \E body \in Bodies : HttpPost(1, body)
    \/ HttpFetched(1)
    \/ LoadSteps(1)
    \/ InferOne(1)
    \/ FinishLoop(1)
    \/ HttpReturn(1)

SpecHttp == InitHttp /\ [][NextHttp]_vars

(***************************************************************************)
(* Properties of predict_with_all_models (SpecPredict).                    *)
(***************************************************************************)
\* thread 1's predict_with_all_models call has returned
Returned == pc[1] = "idle" /\ ncalls[1] = 1

IsMock(e) == e.source = "mock"
RealPart(res) == SelectSeq(res, LAMBDA e : ~IsMock(e))
KeysOf(res) == [i \in 1..Len(res) |-> res[i].key]
RegistryIndex(k) == CHOOSE i \in 1..Len(Registry) : Registry[i].key = k

\* C1: the best pick is an entry of results at position best.index, its
\* confidence is the maximum over results, and among entries sharing the
\* maximum it is the first.
C1_BestIsFirstMax ==
    Returned =>
        LET res == response[1].results
            b == response[1].best
        IN /\ b.index \in 0..(Len(res) - 1)
           /\ [model |-> b.model, key |-> b.key, prediction |-> b.prediction,
               confidence |-> b.confidence, source |-> b.source] = res[b.index + 1]
           /\ \A i \in 1..Len(res) : res[i].confidence <= b.confidence
           /\ \A i \in 1..b.index : res[i].confidence < b.confidence

\* C1 witness: a returned response of real results whose maximum is shared
\* by two positions, neither of them the first of the list
C1_Witness ==
    /\ Returned
    /\ LET res == response[1].results
       IN /\ ~IsMock(res[1])
          /\ response[1].best.index = 1
          /\ \E j \in 3..Len(res) : res[j].confidence = response[1].best.confidence

\* C2: the returned results are never empty; they are exactly the five mock
\* entries mock_0..mock_4 when no loaded model completed its inference, and
\* hold no mock entry otherwise.
C2_MockFallback ==
    Returned =>
        LET res == response[1].results
        IN /\ Len(res) >= 1
           /\ done[1] = <<>> =>
                 /\ KeysOf(res) = <<"mock_0", "mock_1", "mock_2", "mock_3", "mock_4">>
                 /\ \A i \in 1..Len(res) : IsMock(res[i])
           /\ done[1] # <<>> => \A i \in 1..Len(res) : ~IsMock(res[i])

\* C2 witness: models were loaded, every one of them failed, the mock set
\* was returned
C2_Witness ==
    /\ Returned
    /\ Len(pmodels[1]) >= 2
    /\ done[1] = <<>>
    /\ Len(response[1].results) = 5

\* C2 witness of the other case: a real result, and no mock
C2_WitnessReal ==
    /\ Returned
    /\ done[1] # <<>>
    /\ Len(done[1]) < Len(pmodels[1])

\* C3: every non-mock result has prediction 1 exactly when its confidence is
\* at least 0.5.
C3_LabelIffThreshold ==
    \A i \in 1..Len(results[1]) :
        ~IsMock(results[1][i]) =>
            (results[1][i].prediction = 1 <=> results[1][i].confidence >= 500)

\* C3 witness: a sklearn result at exactly 0.5 with label 1 and a keras
\* result below 0.5 with label 0
C3_Witness ==
    /\ Returned
    /\ \E i, k \in 1..Len(results[1]) :
          /\ results[1][i].source = "sklearn"
          /\ results[1][i].confidence = 500
          /\ results[1][i].prediction = 1
          /\ results[1][k].source = "keras"
          /\ results[1][k].confidence < 500
          /\ results[1][k].prediction = 0

\* C8: no exception of a model's inference leaves predict_with_all_models;
\* the real results are one entry per loaded model whose inference completed,
\* in registry order.
C8_SkipOnlyFailed ==
    /\ pc[1] # "raised"
    /\ KeysOf(RealPart(results[1])) = done[1]
    /\ \A i, j \in 1..Len(done[1]) :
          i < j => RegistryIndex(done[1][i]) < RegistryIndex(done[1][j])
    /\ Returned => response[1].results = results[1]

\* C8 witness: the middle one of three loaded models failed, and the two
\* results are not in confidence order
C8_Witness ==
    /\ Returned
    /\ Len(pmodels[1]) = 3
    /\ done[1] = <<pmodels[1][1].key, pmodels[1][3].key>>
    /\ response[1].results[1].confidence < response[1].results[2].confidence

\* thread 1's last iteration read a probability vector and appended a result
ReadVector ==
    /\ pc[1] = "p230"
    /\ lastIn[1].method = "predict_proba"
    /\ lastIn[1].out.kind = "vec"
    /\ Len(lastIn[1].out.vec) > 0
    /\ Len(results[1]) > 0
    /\ results[1][Len(results[1])].key = lastIn[1].key

LastConfidence == results[1][Len(results[1])].confidence

\* C9 as stated: the confidence is p[1] for a vector of exactly two entries
\* and p[0] for every other length.
C9_Original ==
    ReadVector =>
        LastConfidence = IF Len(lastIn[1].out.vec) = 2
                         THEN lastIn[1].out.vec[2] ELSE lastIn[1].out.vec[1]

\* C9 amended: the confidence is p[1] for a vector of two or more entries and
\* p[0] for a vector of one entry; decision_function and predict are read
\* only when the model has no predict_proba.
C9_SecondEntryIfAny ==
    /\ ReadVector =>
          LastConfidence = IF Len(lastIn[1].out.vec) >= 2
                           THEN lastIn[1].out.vec[2] ELSE lastIn[1].out.vec[1]
    /\ lastIn[1].method \in {"decision_function", "predict"} =>
          "predict_proba" \notin lastIn[1].caps

\* C9 witness: a vector of three entries whose first two differ
C9_Witness ==
    /\ ReadVector
    /\ Len(lastIn[1].out.vec) = 3
    /\ lastIn[1].out.vec[1] # lastIn[1].out.vec[2]
    /\ LastConfidence = lastIn[1].out.vec[2]

(***************************************************************************)
(* Properties of load_models_if_needed (SpecSeq, SpecLoad, Spec).          *)
(***************************************************************************)
\* C4: in one thread the loading loop runs at most once, and every call that
\* has returned returned what the first call returned, whatever happened to
\* the files in between.
C4_LoadedOnce ==
    /\ nloads <= 1
    /\ (pc[1] = "idle" /\ firstRet # <<>>) => ret[1] = firstRet[1]

\* C4 witness: the second call has returned a non-empty mapping although the
\* file of one of its models has changed since it was loaded
C4_Witness ==
    /\ pc[1] = "idle"
    /\ ncalls[1] = 2
    /\ nchanges > 0
    /\ ret[1] # <<>>
    /\ \E i \in 1..Len(ret[1]) :
          ret[1][i].model # disk[Registry[RegistryIndex(ret[1][i].key)].path]

\* a descriptor whose files exist and deserialize and whose runtime is there
Usable(c, d) ==
    IF c.type = "sklearn" THEN joblib /\ d[c.path] \in Versions
    ELSE /\ d[c.path] \in Versions
         /\ d[c.tokenizer] \in Versions
         /\ joblib
         /\ tfInstall = "ok"
         /\ npInstall

UsableKeys(d) ==
    LET ks == [i \in 1..Len(Registry) |-> Registry[i].key]
    IN SelectSeq(ks, LAMBDA k : Usable(Registry[RegistryIndex(k)], d))

\* C7: load_models_if_needed never raises, and the mapping it builds holds
\* exactly the descriptors whose files exist, whose runtime is available and
\* whose deserialization succeeded, each with the model read from its file.
C7_BestEffortLoad ==
    /\ pc[1] # "raised"
    /\ loops[1] > 0 =>
          /\ KeysOf(loaded[1]) = UsableKeys(disk)
          /\ \A i \in 1..Len(loaded[1]) :
                loaded[1][i].model = disk[Registry[RegistryIndex(loaded[1][i].key)].path]
    /\ (pc[1] = "idle" /\ ncalls[1] > 0) => ret[1] = loaded[1]

\* C7 witness: the first artifact is corrupt and the tokenizer too, joblib is
\* there, and the call returned the later sklearn models without the lstm
C7_Witness ==
    /\ pc[1] = "idle"
    /\ ncalls[1] > 0
    /\ disk["model_pipeline_lr.pkl"] = Corrupt
    /\ disk["lstm_model.h5"] = "v1"
    /\ disk["tokenizer.pkl"] = Corrupt
    /\ tfInstall = "ok"
    /\ npInstall
    /\ KeysOf(ret[1]) = <<"svm", "xgb", "base">>

\* lines 180-223 of load_models_if_needed
LinesBeforeFlag ==
    {"l180", "l182", "l195", "l197", "l200", "l200t", "l203", "l205", "l206",
     "l211", "l213", "l217", "l218", "l223"}

\* C10: nothing guards the loading loop: a thread's step at lines 180-223
\* never sets _models_loaded, and a call that finds it unset goes on to the
\* loop, so a second call may enter while the first is still loading.
C10_NoGuard ==
    [][\A t \in Threads :
          (pc[t] \in LinesBeforeFlag /\ pc'[t] # pc[t]) =>
              /\ models_loaded' = models_loaded
              /\ (pc[t] = "l180" /\ ~models_loaded) => pc'[t] = "l182"]_vars

\* C10 witness: two calls both ran the whole loop and both returned
C10_Witness ==
    /\ nloads >= 2
    /\ pc[1] = "idle" /\ loops[1] > 0
    /\ pc[2] = "idle" /\ loops[2] > 0
    /\ models_loaded

\* C11: the cache is frozen once populated: from the first return of
\* load_models_if_needed on (which follows the first setting of
\* _models_loaded) _models keeps the mapping that call returned, and every
\* call of every thread that has returned returned that mapping.
C11_FrozenCache ==
    /\ firstRet # <<>> => models = firstRet[1]
    /\ \A t \in Threads :
          (pc[t] = "idle" /\ ncalls[t] > 0) => ret[t] = firstRet[1]

(***************************************************************************)
(* Properties of POST /predict_all (SpecHttp).                             *)
(***************************************************************************)
\* thread 1's request has been answered
Replied == pc[1] = "idle" /\ reply[1].status # 0

\* input the handler should reject: no JSON, neither text nor url, blank text
\* without url, or a text that is no string
InvalidInput(b) ==
    \/ b.json = "invalid"
    \/ /\ b.json = "object"
       /\ \/ b.text.kind = "missing" /\ b.url.kind = "missing"
          \/ b.text.kind = "str" /\ Strip(b.text.s) = <<>> /\ b.url.kind = "missing"
          \/ b.text.kind = "other"

\* C5: invalid input is answered with 400 and an error body, and never
\* reaches the aggregator.
C5_InvalidIs400 ==
    InvalidInput(req[1]) =>
        /\ aggArg[1] = <<>>
        /\ Replied => (reply[1].status = 400 /\ reply[1].kind = "error")

\* the url field is a string that is non-empty after stripping
UrlGiven(b) ==
    /\ b.json = "object"
    /\ b.url.kind = "str"
    /\ Strip(b.url.s) # <<>>

\* the resolver was called with the stripped url and, once it has returned,
\* its return value is the aggregator's text
ResolvedFromUrl ==
    /\ fetched[1].called
    /\ fetched[1].arg = Strip(req[1].url.s)
    /\ pc[1] # "f9" =>
          /\ aggArg[1] = <<fetched[1].ret>>
          /\ text[1] = fetched[1].ret

\* C6: whenever the url is non-empty after stripping, whatever the text field
\* holds, get_text_from_url is called with that url and what it returns is
\* the text given to predict_with_all_models; the text field reaches the
\* aggregator only when the url is absent or blank.
C6_UrlWins ==
    /\ UrlGiven(req[1]) => ResolvedFromUrl
    /\ (aggArg[1] # <<>> /\ ~fetched[1].called) =>
          /\ req[1].url.kind = "missing" \/ Strip(req[1].url.s) = <<>>
          /\ aggArg[1] = <<Strip(req[1].text.s)>>

\* the same with the text field a string or missing: this much the handler
\* does
C6_UrlWinsOverStrings ==
    /\ (UrlGiven(req[1]) /\ req[1].text.kind \in {"missing", "str"}) =>
          ResolvedFromUrl
    /\ (aggArg[1] # <<>> /\ ~fetched[1].called) =>
          /\ req[1].url.kind = "missing" \/ Strip(req[1].url.s) = <<>>
          /\ aggArg[1] = <<Strip(req[1].text.s)>>

\* C6 witness: url and a non-empty text are both given, the page's text
\* differs from the text field, and the request was answered from the page
C6_Witness ==
    /\ Replied
    /\ reply[1].status = 200
    /\ req[1].url.kind = "str"
    /\ req[1].url.s # Strip(req[1].url.s)
    /\ req[1].text.kind = "str"
    /\ Strip(req[1].text.s) # <<>>
    /\ fetched[1].called
    /\ response[1].input_text = fetched[1].ret
    /\ response[1].input_text # Strip(req[1].text.s)

\* C12: whenever predict_with_all_models is called from POST /predict_all,
\* its text is a non-empty string of content: not the empty string (no
\* paragraph text extracted) and not the resolver's error message (fetch
\* failed).
C12_NonEmptyContent ==
    aggArg[1] # <<>> =>
        /\ aggArg[1][1] # <<>>
        /\ aggArg[1][1] # ErrorText
====
